---- MODULE Spec2Model ----
(***************************************************************************)
(* A model of vladpy_telegram_ro_bot's Application                         *)
(* (src/src/vladpy_telegram_ro_bot/_application/_application.py): the      *)
(* life cycle of run(), the handlers and filters that the post_init        *)
(* callback registers, the dispatch of updates to them, and the            *)
(* single-worker ProcessPoolExecutor that the post_shutdown callback       *)
(* shuts down.                                                             *)
(*                                                                         *)
(* Spec      is the whole application; its updates are messages of one     *)
(*           sender, with every payload.                                   *)
(* RouteSpec is the whole application too; it gets fewer updates, and      *)
(*           these are messages of every sender, with every payload, sent  *)
(*           directly or via another bot.                                  *)
(* LiveSpec  is Spec with a fair event loop and a fair worker.             *)
(* PoolSpec  is the background executor alone, as constructed on lines     *)
(*           113-117 and shut down on line 260, under an arbitrary client. *)
(* CrashSpec is PoolSpec with a worker process that can die.               *)
(***************************************************************************)
EXTENDS Integers, Sequences, FiniteSets, TLC

(* ------------------------------ bounds -------------------------------- *)

\* Updates delivered to the application in one run.
MaxUpdates == 2

\* Updates delivered in one run of RouteSpec.
MaxRouted == 1

\* Jobs an arbitrary client hands to the executor in PoolSpec.
MaxJobs == 3

(* ------------------------------ inputs -------------------------------- *)

\* Usernames are strings, modelled as sequences of characters.
NoUsername == << >>
UserA == << "a" >>
UserB == << "b" >>
AtUserB == << "@", "b" >>

\* BotConfig.usernames_whitelist as read from config/.stash/bot.json:
\* None (present = FALSE) or a collection of strings.
WhitelistChoices ==
    { [present |-> FALSE, names |-> {}],
      [present |-> TRUE, names |-> {}],
      [present |-> TRUE, names |-> {UserA}],
      [present |-> TRUE, names |-> {UserA, AtUserB}] }

NoWhitelist == [present |-> FALSE, names |-> {}]

\* Senders: no from_user at all (a channel post), a user without a
\* username, and users with a username.  Telegram usernames hold no "@".
Senders ==
    { [has_user |-> FALSE, username |-> NoUsername],
      [has_user |-> TRUE, username |-> NoUsername],
      [has_user |-> TRUE, username |-> UserA],
      [has_user |-> TRUE, username |-> UserB] }

\* Command.command_sequence(None): the names of the bot's commands.
command_sequence == << "start", "help" >>

\* What a message carries: text or a caption, and, when its first entity
\* is a bot command at offset 0, that command's name and whether text
\* follows it.
Payloads ==
    { [text |-> TRUE, caption |-> FALSE, command |-> "", args |-> FALSE],
      [text |-> FALSE, caption |-> TRUE, command |-> "", args |-> FALSE],
      [text |-> FALSE, caption |-> FALSE, command |-> "", args |-> FALSE],
      [text |-> TRUE, caption |-> FALSE, command |-> "start", args |-> FALSE],
      [text |-> TRUE, caption |-> FALSE, command |-> "help", args |-> FALSE],
      [text |-> TRUE, caption |-> FALSE, command |-> "start", args |-> TRUE],
      [text |-> TRUE, caption |-> FALSE, command |-> "foo", args |-> FALSE] }

\* The effective message of an update.  A Telegram message always has a
\* chat; it may lack a sender and may have been sent via an inline bot.
Messages ==
    { [has_user |-> s.has_user, username |-> s.username, has_chat |-> TRUE,
       via_bot |-> v, text |-> p.text, caption |-> p.caption,
       command |-> p.command, args |-> p.args] :
      s \in Senders, v \in BOOLEAN, p \in Payloads }

\* The messages that a user with a username sends directly.
CoreMessages ==
    { m \in Messages : m.has_user /\ m.username = UserA /\ ~m.via_bot }

NoMessage ==
    [has_user |-> FALSE, username |-> NoUsername, has_chat |-> FALSE,
     via_bot |-> FALSE, text |-> FALSE, caption |-> FALSE,
     command |-> "", args |-> FALSE]

(* ------------------------------ filters ------------------------------- *)

\* telegram.ext.filters.User(username=...): a leading "@" of a configured
\* username is discarded.
parse_username_identity(names) == names

parse_username(names) ==
    { IF Len(n) > 0 /\ n[1] = "@" THEN Tail(n) ELSE n : n \in names }

\* telegram.ext.filters.User(allow_empty=..., username=...).filter(message)
UserFilter(allow_empty, whitelist, msg) ==
    LET usernames == IF whitelist.present
                     THEN parse_username(whitelist.names) ELSE {}
    IN  IF msg.has_user
        THEN IF usernames # {}
             THEN msg.username # NoUsername /\ msg.username \in usernames
             ELSE allow_empty
        ELSE FALSE

\* filters.COMMAND, TEXT, CAPTION, USER, CHAT, VIA_BOT
COMMAND(msg) == msg.command # ""
TEXT(msg) == msg.text
CAPTION(msg) == msg.caption
USER(msg) == msg.has_user
CHAT(msg) == msg.has_chat
VIA_BOT(msg) == msg.via_bot


(* ------------------------------- state -------------------------------- *)

VARIABLES
    pc,                   \* where Application.run() is
    bot_config,           \* self.__bot_config
    telegram_config,      \* self.__telegram_config
    gcloud_credentials,   \* self.__gcloud_credentials
    application,          \* self.__application
    bot,                  \* self.__bot
    background_executor,  \* self.__background_executor
    published,            \* publish calls of the post_init callback done
    error_handlers,       \* callbacks given to application.add_error_handler
    handlers,             \* handlers given to application.add_handler, in order
    updates,              \* the updates of this run and how far each one got
    pool,                 \* the ProcessPoolExecutor
    shutdown_calls,       \* calls of background_executor.shutdown()
    executors,            \* the executors constructed and who holds which
    raised                \* the exceptions raised out of Application's methods

vars ==
    << pc, bot_config, telegram_config, gcloud_credentials, application, bot,
       background_executor, published, error_handlers, handlers, updates,
       pool, shutdown_calls, executors, raised >>

app_vars ==
    << bot_config, telegram_config, gcloud_credentials, application, bot,
       published, error_handlers, handlers, updates >>

UpdateIds == 1 .. MaxUpdates

Range(s) == { s[i] : i \in DOMAIN s }

IsPrefix(s, t) == Len(s) <= Len(t) /\ \A i \in 1 .. Len(s) : s[i] = t[i]

(* ------------------------- the executor (pool) ------------------------ *)

\* ProcessPoolExecutor(max_workers=1)
max_workers_two == 1 + 1

max_workers == 1

\* A ProcessPoolExecutor right after its construction.  at_shutdown
\* remembers which jobs were queued, which were running and how many had
\* been accepted when shutdown() was called; at_crash, the same and how
\* many had been submitted when the worker process died.
NewExecutor ==
    [shutdown_flag |-> FALSE,
     broken |-> FALSE,
     stopped |-> FALSE,
     queue |-> << >>,
     running |-> {},
     results |-> << >>,
     submitted |-> << >>,
     started |-> << >>,
     finished |-> << >>,
     rejected |-> {},
     at_shutdown |-> [queued |-> {}, running |-> {}, accepted |-> 0],
     at_crash |-> [queued |-> {}, running |-> {}, issued |-> 0]]

\* Executor.submit(): raises BrokenProcessPool once a worker process died
\* and RuntimeError once shutdown() was called, else appends the work item
\* to the pending queue and returns at once.
ExecutorAccepts(p) == ~p.broken /\ ~p.shutdown_flag

ExecutorSubmit(p, j) ==
    IF ExecutorAccepts(p)
    THEN [p EXCEPT !.queue = Append(@, j), !.submitted = Append(@, j)]
    ELSE [p EXCEPT !.rejected = @ \cup {j}]

\* The worker process takes the oldest pending work item.
ExecutorCanStart(p) ==
    /\ ~p.stopped
    /\ ~p.broken
    /\ p.queue # << >>
    /\ Cardinality(p.running) < max_workers

ExecutorStart(p) ==
    [p EXCEPT !.queue = Tail(@),
              !.running = @ \cup {Head(p.queue)},
              !.started = Append(@, Head(p.queue))]

\* A running work item returns ("ok") or raises ("error"); the future of
\* the job is resolved with that.
JobOutcomes == { "ok", "error" }

ExecutorFinish(p, j, outcome) ==
    [p EXCEPT !.running = @ \ {j},
              !.results = (j :> outcome) @@ @,
              !.finished = Append(@, j)]

\* The worker process dies while it runs a job: the executor is marked
\* broken, and every work item that is running or queued gets the
\* exception BrokenProcessPool.  No new worker is started.
ExecutorCrashRunningOnly(p) ==
    [p EXCEPT !.broken = TRUE,
              !.at_crash = [queued |-> Range(p.queue), running |-> p.running,
                            issued |-> Len(p.submitted) + Cardinality(p.rejected)],
              !.running = {},
              !.results = [j \in p.running |-> "broken"] @@ @]

ExecutorCrash(p) ==
    [p EXCEPT !.broken = TRUE,
              !.at_crash = [queued |-> Range(p.queue), running |-> p.running,
                            issued |-> Len(p.submitted) + Cardinality(p.rejected)],
              !.queue = << >>,
              !.running = {},
              !.results = [j \in Range(p.queue) \cup p.running |-> "broken"] @@ @]

\* Executor.shutdown(wait=True, cancel_futures=False), as called on line
\* 260 with the defaults: pending work items stay queued, the running
\* one keeps running, and the call returns when all of them are done.
ExecutorShutdownCancelling(p) ==
    [p EXCEPT !.shutdown_flag = TRUE,
              !.at_shutdown = [queued |-> Range(p.queue), running |-> p.running,
                               accepted |-> Len(p.submitted)],
              !.queue = << >>,
              !.running = {},
              !.results = [j \in Range(p.queue) \cup p.running |-> "cancelled"] @@ @]

ExecutorShutdown(p) ==
    IF p.shutdown_flag
    THEN p
    ELSE [p EXCEPT !.shutdown_flag = TRUE,
                   !.at_shutdown = [queued |-> Range(p.queue),
                                    running |-> p.running,
                                    accepted |-> Len(p.submitted)]]

ExecutorShutdownReturnsNoWait(p) == TRUE

ExecutorShutdownReturns(p) == p.queue = << >> /\ p.running = {}

JobPending(p, j) == j \in Range(p.queue) \cup p.running

JobResolved(p, j) == j \in DOMAIN p.results

(* ----------------------------- dispatching ---------------------------- *)

\* ApplicationBuilder().concurrent_updates(True) and Defaults(block=False):
\* the update fetcher waits for a handler only when updates are processed
\* one by one and the handler is blocking.
concurrent_updates == TRUE

block == FALSE

InFlight(u) == updates[u].phase \in { "routed", "offloaded", "rejected" }

Terminal(u) == updates[u].phase \in { "dropped", "replied", "failed" }

CanProcessNextSerialized == \A u \in UpdateIds : ~InFlight(u)

CanProcessNext ==
    \/ concurrent_updates
    \/ ~block
    \/ \A u \in UpdateIds : ~InFlight(u)

\* usernames_whitelist_filter
usernames_whitelist_filter(msg) ==
    UserFilter(~bot_config.usernames_whitelist.present,
               bot_config.usernames_whitelist, msg)

\* The filters of every CommandHandler.
CommandFiltersNoWhitelist(msg) ==
    COMMAND(msg) /\ USER(msg) /\ CHAT(msg) /\ ~VIA_BOT(msg)

CommandFilters(msg) ==
    /\ COMMAND(msg)
    /\ USER(msg)
    /\ CHAT(msg)
    /\ ~VIA_BOT(msg)
    /\ usernames_whitelist_filter(msg)

\* The filters of the MessageHandler.
TranslationFiltersCaptionOnly(msg) ==
    /\ CAPTION(msg)
    /\ ~COMMAND(msg)
    /\ USER(msg)
    /\ CHAT(msg)
    /\ ~VIA_BOT(msg)
    /\ usernames_whitelist_filter(msg)

TranslationFiltersWithCommands(msg) ==
    /\ (TEXT(msg) \/ CAPTION(msg))
    /\ USER(msg)
    /\ CHAT(msg)
    /\ ~VIA_BOT(msg)
    /\ usernames_whitelist_filter(msg)

TranslationFilters(msg) ==
    /\ (TEXT(msg) \/ CAPTION(msg))
    /\ ~COMMAND(msg)
    /\ USER(msg)
    /\ CHAT(msg)
    /\ ~VIA_BOT(msg)
    /\ usernames_whitelist_filter(msg)

\* CommandHandler(..., has_args=False): the command is taken only when
\* no argument follows it.  (Without has_args it is taken either way.)
has_args_any == TRUE

has_args == FALSE

CommandHandlerFor(c) == [kind |-> "CommandHandler", command |-> c]

TranslationHandler == [kind |-> "MessageHandler", command |-> ""]

\* The handlers in the order the post_init callback adds them.
RegisteredHandlers ==
    [i \in 1 .. Len(command_sequence) |-> CommandHandlerFor(command_sequence[i])]
        \o << TranslationHandler >>

\* CommandHandler.check_update / MessageHandler.check_update
check_update(h, msg) ==
    IF h.kind = "CommandHandler"
    THEN /\ COMMAND(msg)
         /\ TEXT(msg)
         /\ msg.command = h.command
         /\ (has_args \/ ~msg.args)
         /\ CommandFilters(msg)
    ELSE TranslationFilters(msg)

\* Application.process_update: all handlers are in one group, and the
\* first one whose check_update accepts the update handles it.
Matching(msg) == { i \in DOMAIN handlers : check_update(handlers[i], msg) }

Route(msg) ==
    IF Matching(msg) = {}
    THEN 0
    ELSE CHOOSE i \in Matching(msg) : \A k \in Matching(msg) : i <= k

(* ------------------------------ updates ------------------------------- *)

\* An update that has not arrived yet.  while_pending and after_failure
\* remember what was going on when the update was dispatched: a job of
\* another update was queued or running; another update's handler had
\* raised.
NoUpdate ==
    [msg |-> NoMessage, phase |-> "absent", handler |-> 0, submits |-> 0,
     replies |-> 0, reply |-> "", errors |-> 0,
     while_pending |-> FALSE, after_failure |-> FALSE]

HandlerKind(u) ==
    IF updates[u].handler = 0 THEN "" ELSE handlers[updates[u].handler].kind

\* Application.process_error: every registered error handler is called.
ErrorHandlerCalls == Cardinality(error_handlers)

\* application.add_error_handler(self.__handle_error)
add_error_handler_omitted(registered) == registered

add_error_handler(registered) == registered \cup { "handle_error" }

(* --------------------------- Application.run -------------------------- *)

\* No executor was constructed yet; the Application and the Bot hold none.
NoExecutors == [constructed |-> 0, application |-> 0, bot |-> 0]

\* self.__background_executor = ProcessPoolExecutor(max_workers=1)
ConstructExecutor(e) ==
    [e EXCEPT !.constructed = @ + 1, !.application = e.constructed + 1]

\* Bot(..., background_executor=self.__background_executor)
BotExecutorOwn(e) ==
    [e EXCEPT !.constructed = @ + 1, !.bot = e.constructed + 1]

BotExecutor(e) == [e EXCEPT !.bot = e.application]

\* An exception leaves a method of Application.
Raise(exception) == raised \cup { exception }

Init ==
    /\ pc = "new"
    /\ bot_config = [set |-> FALSE, usernames_whitelist |-> NoWhitelist]
    /\ telegram_config = FALSE
    /\ gcloud_credentials = FALSE
    /\ application = FALSE
    /\ bot = FALSE
    /\ background_executor = FALSE
    /\ published = 0
    /\ error_handlers = {}
    /\ handlers = << >>
    /\ updates = [u \in UpdateIds |-> NoUpdate]
    /\ pool = NewExecutor
    /\ shutdown_calls = 0
    /\ executors = NoExecutors
    /\ raised = {}

\* __read_config that forgets the credentials of the cloud service.
read_config_partial ==
    /\ pc = "new"
    /\ \E w \in WhitelistChoices :
          bot_config' = [set |-> TRUE, usernames_whitelist |-> w]
    /\ telegram_config' = TRUE
    /\ pc' = "config_read"
    /\ UNCHANGED << gcloud_credentials, application, bot, background_executor,
                    published, error_handlers, handlers, updates, pool,
                    shutdown_calls, executors, raised >>

\* __read_config: the three files are read; a missing or invalid file
\* raises out of run().
read_config ==
    /\ pc = "new"
    /\ \E w \in WhitelistChoices :
          bot_config' = [set |-> TRUE, usernames_whitelist |-> w]
    /\ telegram_config' = TRUE
    /\ gcloud_credentials' = TRUE
    /\ pc' = "config_read"
    /\ UNCHANGED << application, bot, background_executor, published,
                    error_handlers, handlers, updates, pool, shutdown_calls,
                    executors, raised >>

read_config_raises ==
    /\ pc = "new"
    /\ pc' = "exited"
    /\ raised' = Raise("ConfigError")
    /\ UNCHANGED << app_vars, background_executor, pool, shutdown_calls,
                    executors >>

\* __create_appplication, lines 107-117: the assertions and the executor.
create_executor ==
    /\ pc = "config_read"
    /\ IF bot_config.set /\ telegram_config /\ gcloud_credentials
       THEN /\ background_executor' = TRUE
            /\ pool' = NewExecutor
            /\ executors' = ConstructExecutor(executors)
            /\ pc' = "executor_created"
            /\ UNCHANGED raised
       ELSE /\ raised' = Raise("AssertionError")
            /\ pc' = "exited"
            /\ UNCHANGED << background_executor, pool, executors >>
    /\ UNCHANGED << app_vars, shutdown_calls >>

\* __create_appplication, lines 119-149: the Bot and the built application.
create_bot_and_application ==
    /\ pc = "executor_created"
    /\ bot' = TRUE
    /\ executors' = BotExecutor(executors)
    /\ application' = TRUE
    /\ pc' = "built"
    /\ UNCHANGED << bot_config, telegram_config, gcloud_credentials,
                    background_executor, published, error_handlers, handlers,
                    updates, pool, shutdown_calls, raised >>

\* Bot(...) or ApplicationBuilder()...build() raises (a rejected token, a
\* missing rate limiter dependency): the exception leaves run(), and
\* nothing shuts the executor down.
create_bot_and_application_raises ==
    /\ pc = "executor_created"
    /\ pc' = "exited"
    /\ raised' = Raise("BuildError")
    /\ UNCHANGED << app_vars, background_executor, pool, shutdown_calls,
                    executors >>

\* The awaited calls of the post_init callback, lines 163-190.
PublishCalls == 6

\* run(), lines 55-58, and the start of the post_init callback, lines
\* 157-161: the assertion of run(), then run_polling(), which initializes
\* the application and calls __initialize_application, whose assertions
\* come first.  An exception in the callback takes run_polling to its
\* finally block.
run_polling ==
    /\ pc = "built"
    /\ IF ~application
       THEN raised' = Raise("AssertionError") /\ pc' = "exited"
       ELSE IF ~(bot_config.set /\ bot)
            THEN raised' = Raise("AssertionError") /\ pc' = "finalize"
            ELSE UNCHANGED raised /\ pc' = "post_init"
    /\ UNCHANGED << app_vars, background_executor, pool, shutdown_calls,
                    executors >>

\* One of the awaited set_my_commands / set_my_description /
\* set_my_short_description calls, lines 163-190.
publish ==
    /\ pc = "post_init"
    /\ published < PublishCalls
    /\ published' = published + 1
    /\ UNCHANGED << pc, bot_config, telegram_config, gcloud_credentials,
                    application, bot, background_executor, error_handlers,
                    handlers, updates, pool, shutdown_calls, executors,
                    raised >>

\* The call raises; nothing in the callback catches the exception, which
\* leaves it, and run_polling goes on to its finally block.
publish_raises ==
    /\ pc = "post_init"
    /\ published < PublishCalls
    /\ raised' = Raise("PublishError")
    /\ pc' = "finalize"
    /\ UNCHANGED << app_vars, background_executor, pool, shutdown_calls,
                    executors >>

\* Line 194, application.add_error_handler(self.__handle_error).  Nothing
\* is awaited from here to the end of the callback.
register_error_handler ==
    /\ pc = "post_init"
    /\ published = PublishCalls
    /\ error_handlers' = add_error_handler(error_handlers)
    /\ pc' = "registering"
    /\ UNCHANGED << bot_config, telegram_config, gcloud_credentials,
                    application, bot, background_executor, published,
                    handlers, updates, pool, shutdown_calls, executors,
                    raised >>

\* Lines 196-239: the whitelist filter and the handlers; after the
\* callback run_polling starts polling.
register_handlers ==
    /\ pc = "registering"
    /\ handlers' = RegisteredHandlers
    /\ pc' = "polling"
    /\ UNCHANGED << bot_config, telegram_config, gcloud_credentials,
                    application, bot, background_executor, published,
                    error_handlers, updates, pool, shutdown_calls, executors,
                    raised >>

\* SIGINT, SIGTERM or SIGABRT: run_polling stops fetching updates.
stop_signal ==
    /\ pc \in { "post_init", "polling" }
    /\ pc' = IF pc = "polling" THEN "stopping" ELSE "finalize"
    /\ UNCHANGED << app_vars, background_executor, pool, shutdown_calls,
                    executors, raised >>

\* Application.stop() that does not wait for the tasks of the handlers.
stop_complete_no_wait ==
    /\ pc = "stopping"
    /\ pc' = "finalize"
    /\ UNCHANGED << app_vars, background_executor, pool, shutdown_calls,
                    executors, raised >>

\* Application.stop() returns when the pending updates are processed and
\* the tasks of their handlers are done.
stop_complete ==
    /\ pc = "stopping"
    /\ \A u \in UpdateIds : updates[u].phase = "absent" \/ Terminal(u)
    /\ pc' = "finalize"
    /\ UNCHANGED << app_vars, background_executor, pool, shutdown_calls,
                    executors, raised >>

\* __shutdown_application up to the call of shutdown(), which blocks; its
\* assertion comes first.
shutdown_application_begin ==
    /\ pc = "finalize"
    /\ IF background_executor
       THEN /\ pool' = ExecutorShutdown(pool)
            /\ shutdown_calls' = shutdown_calls + 1
            /\ pc' = "shutdown_wait"
            /\ UNCHANGED raised
       ELSE /\ raised' = Raise("AssertionError")
            /\ pc' = "exited"
            /\ UNCHANGED << pool, shutdown_calls >>
    /\ UNCHANGED << app_vars, background_executor, executors >>

\* shutdown() returns, 'shutdown end' is logged, run() ends.
shutdown_application_end ==
    /\ pc = "shutdown_wait"
    /\ ExecutorShutdownReturns(pool)
    /\ pool' = [pool EXCEPT !.stopped = TRUE]
    /\ pc' = "exited"
    /\ UNCHANGED << app_vars, background_executor, shutdown_calls,
                    executors, raised >>

(* ------------------------- handling an update ------------------------- *)

Polling == pc \in { "polling", "stopping" }

\* The updater puts the next update into the update queue.
receive(u, m) ==
    /\ pc = "polling"
    /\ updates[u].phase = "absent"
    /\ \A v \in UpdateIds : v < u => updates[v].phase # "absent"
    /\ updates' = [updates EXCEPT ![u].msg = m, ![u].phase = "received"]
    /\ UNCHANGED << pc, bot_config, telegram_config, gcloud_credentials,
                    application, bot, background_executor, published,
                    error_handlers, handlers, pool, shutdown_calls, executors, raised >>

\* Application.process_update: the update is dropped, or the callback of
\* the first matching handler is started as a task.
dispatch(u) ==
    /\ Polling
    /\ updates[u].phase = "received"
    /\ \A v \in UpdateIds : v < u => updates[v].phase # "received"
    /\ CanProcessNext
    /\ LET h == Route(updates[u].msg)
       IN  updates' =
             [updates EXCEPT
                ![u].phase = IF h = 0 THEN "dropped" ELSE "routed",
                ![u].handler = h,
                ![u].while_pending =
                    \E v \in UpdateIds :
                        updates[v].phase = "offloaded" /\ JobPending(pool, v),
                ![u].after_failure =
                    \E v \in UpdateIds : updates[v].phase = "failed"]
    /\ UNCHANGED << pc, bot_config, telegram_config, gcloud_credentials,
                    application, bot, background_executor, published,
                    error_handlers, handlers, pool, shutdown_calls, executors, raised >>

\* The end of a handler: its reply was sent, or sending it raised and the
\* exception went to Application.process_error.
Finish(u, text, sent) ==
    [updates EXCEPT
       ![u].replies = @ + 1,
       ![u].reply = text,
       ![u].phase = IF sent THEN "replied" ELSE "failed",
       ![u].errors = IF sent THEN @ ELSE @ + ErrorHandlerCalls]

\* Bot.handle_command: replies to the command.
handle_command(u, sent) ==
    /\ Polling
    /\ updates[u].phase = "routed"
    /\ HandlerKind(u) = "CommandHandler"
    /\ updates' = Finish(u, "command", sent)
    /\ UNCHANGED << pc, bot_config, telegram_config, gcloud_credentials,
                    application, bot, background_executor, published,
                    error_handlers, handlers, pool, shutdown_calls, executors, raised >>

\* Bot.handle_translation, up to its await: one job for the executor.
handle_translation_submit(u) ==
    /\ Polling
    /\ updates[u].phase = "routed"
    /\ HandlerKind(u) = "MessageHandler"
    /\ pool' = ExecutorSubmit(pool, u)
    /\ updates' = [updates EXCEPT
                     ![u].submits = @ + 1,
                     ![u].phase = IF ExecutorAccepts(pool)
                                  THEN "offloaded" ELSE "rejected"]
    /\ UNCHANGED << pc, bot_config, telegram_config, gcloud_credentials,
                    application, bot, background_executor, published,
                    error_handlers, handlers, shutdown_calls, executors, raised >>

\* Bot.handle_translation, after its await: the translation is sent, or
\* a failure notice when the job raised or was not accepted.
handle_translation_reply(u, sent) ==
    /\ Polling
    /\ \/ updates[u].phase = "offloaded" /\ JobResolved(pool, u)
       \/ updates[u].phase = "rejected"
    /\ updates' =
         Finish(u,
                IF updates[u].phase = "offloaded" /\ pool.results[u] = "ok"
                THEN "translated" ELSE "failure",
                sent)
    /\ UNCHANGED << pc, bot_config, telegram_config, gcloud_credentials,
                    application, bot, background_executor, published,
                    error_handlers, handlers, pool, shutdown_calls, executors, raised >>

(* ----------------------------- the worker ----------------------------- *)

worker_start ==
    /\ background_executor
    /\ ExecutorCanStart(pool)
    /\ pool' = ExecutorStart(pool)
    /\ UNCHANGED << pc, app_vars, background_executor, shutdown_calls, executors, raised >>

worker_finish(j, outcome) ==
    /\ background_executor
    /\ j \in pool.running
    /\ pool' = ExecutorFinish(pool, j, outcome)
    /\ UNCHANGED << pc, app_vars, background_executor, shutdown_calls, executors, raised >>

\* The worker process is killed, or dies, in the middle of a job.
worker_crash ==
    /\ background_executor
    /\ ~pool.broken
    /\ pool.running # {}
    /\ pool' = ExecutorCrash(pool)
    /\ UNCHANGED << pc, app_vars, background_executor, shutdown_calls,
                    executors, raised >>

(* -------------------------- specifications ---------------------------- *)

Lifecycle ==
    \/ read_config
    \/ read_config_raises
    \/ create_executor
    \/ create_bot_and_application
    \/ create_bot_and_application_raises
    \/ run_polling
    \/ publish
    \/ publish_raises
    \/ register_error_handler
    \/ register_handlers
    \/ stop_signal
    \/ stop_complete
    \/ shutdown_application_begin
    \/ shutdown_application_end

Handling ==
    \/ \E u \in UpdateIds : dispatch(u)
    \/ \E u \in UpdateIds, sent \in BOOLEAN : handle_command(u, sent)
    \/ \E u \in UpdateIds : handle_translation_submit(u)
    \/ \E u \in UpdateIds, sent \in BOOLEAN : handle_translation_reply(u, sent)
    \/ worker_start
    \/ \E j \in UpdateIds, outcome \in JobOutcomes : worker_finish(j, outcome)

Next ==
    \/ Lifecycle
    \/ Handling
    \/ \E u \in UpdateIds, m \in CoreMessages : receive(u, m)

Spec == Init /\ [][Next]_vars

\* The event loop runs every task that can go on, and the worker process
\* takes the next job and ends the one it runs.
Fairness ==
    /\ \A u \in UpdateIds :
          /\ WF_vars(dispatch(u))
          /\ WF_vars(\E sent \in BOOLEAN : handle_command(u, sent))
          /\ WF_vars(handle_translation_submit(u))
          /\ WF_vars(\E sent \in BOOLEAN : handle_translation_reply(u, sent))
    /\ WF_vars(worker_start)
    /\ WF_vars(\E j \in UpdateIds, outcome \in JobOutcomes : worker_finish(j, outcome))

LiveSpec == Init /\ [][Next]_vars /\ Fairness

RouteNext ==
    \/ Lifecycle
    \/ Handling
    \/ \E u \in 1 .. MaxRouted, m \in Messages : receive(u, m)

RouteSpec == Init /\ [][RouteNext]_vars


(* ---------------- the executor under an arbitrary client -------------- *)

JobIds == 1 .. MaxJobs

\* The executor right after line 117, with nothing else of the
\* application in play.
PoolInit ==
    /\ pc = "pool"
    /\ bot_config = [set |-> TRUE, usernames_whitelist |-> NoWhitelist]
    /\ telegram_config = TRUE
    /\ gcloud_credentials = TRUE
    /\ application = FALSE
    /\ bot = FALSE
    /\ background_executor = TRUE
    /\ published = 0
    /\ error_handlers = {}
    /\ handlers = << >>
    /\ updates = [u \in UpdateIds |-> NoUpdate]
    /\ pool = NewExecutor
    /\ shutdown_calls = 0
    /\ executors = ConstructExecutor(NoExecutors)
    /\ raised = {}

\* A client submits its next job, whatever the executor's state.
client_submit(j) ==
    /\ pc \in { "pool", "pool_shutdown", "pool_stopped" }
    /\ j = Len(pool.submitted) + Cardinality(pool.rejected) + 1
    /\ pool' = ExecutorSubmit(pool, j)
    /\ UNCHANGED << pc, app_vars, background_executor, shutdown_calls, executors, raised >>

\* Line 260, self.__background_executor.shutdown(), at any moment.
pool_shutdown_begin ==
    /\ pc = "pool"
    /\ background_executor
    /\ pool' = ExecutorShutdown(pool)
    /\ shutdown_calls' = shutdown_calls + 1
    /\ pc' = "pool_shutdown"
    /\ UNCHANGED << app_vars, background_executor, executors, raised >>

pool_shutdown_end ==
    /\ pc = "pool_shutdown"
    /\ ExecutorShutdownReturns(pool)
    /\ pool' = [pool EXCEPT !.stopped = TRUE]
    /\ pc' = "pool_stopped"
    /\ UNCHANGED << app_vars, background_executor, shutdown_calls, executors, raised >>

PoolNext ==
    \/ \E j \in JobIds : client_submit(j)
    \/ pool_shutdown_begin
    \/ pool_shutdown_end
    \/ worker_start
    \/ \E j \in JobIds, outcome \in JobOutcomes : worker_finish(j, outcome)

PoolSpec == PoolInit /\ [][PoolNext]_vars

\* The same, with a worker process that can die.
CrashNext == PoolNext \/ worker_crash

CrashSpec == PoolInit /\ [][CrashNext]_vars


(* ------------------------------- claims ------------------------------- *)

WithSender(s) ==
    [has_user |-> s.has_user, username |-> s.username, has_chat |-> TRUE,
     via_bot |-> FALSE, text |-> TRUE, caption |-> FALSE, command |-> "",
     args |-> FALSE]

Whitelist == bot_config.usernames_whitelist

Structural(msg) == msg.has_user /\ msg.has_chat /\ ~msg.via_bot

\* C1, as claimed: once the handlers are registered, the whitelist
\* predicate accepts every sender when the whitelist is None, and
\* otherwise accepts a sender exactly when the sender's username is a
\* member of the configured whitelist.
C1_AsClaimed ==
    handlers # << >> =>
        \A s \in Senders :
            s.has_user =>
                (usernames_whitelist_filter(WithSender(s))
                    <=> (~Whitelist.present \/ s.username \in Whitelist.names))

\* C1, amended: once the handlers are registered, the whitelist predicate
\* accepts every sender when the whitelist is None, and otherwise accepts
\* a sender exactly when the sender has a username and the whitelist
\* holds it, as it is or with one "@" before it.
C1_WhitelistPredicate ==
    handlers # << >> =>
        \A s \in Senders :
            s.has_user =>
                (usernames_whitelist_filter(WithSender(s))
                    <=> \/ ~Whitelist.present
                        \/ /\ s.username # NoUsername
                           /\ \E n \in Whitelist.names :
                                 n = s.username \/ n = << "@" >> \o s.username)

\* A sender whose username the whitelist holds only with an "@" before it
\* was let through to a handler.
C1_Witness ==
    /\ Whitelist.present
    /\ AtUserB \in Whitelist.names
    /\ UserB \notin Whitelist.names
    /\ \E u \in UpdateIds :
          /\ updates[u].handler # 0
          /\ updates[u].msg.username = UserB

Processed(u) == updates[u].phase \notin { "absent", "received" }

\* C2: a handler callback is invoked for an update only if the update has
\* a sender, has a chat, was not sent via another bot and its sender
\* passes the whitelist predicate; an update failing one of these is
\* dropped with no reply, no submission to the executor and no call of
\* the error handler.
C2_OnlyAuthorizedHandled ==
    \A u \in UpdateIds :
        LET m == updates[u].msg
            ok == Structural(m) /\ usernames_whitelist_filter(m)
        IN  /\ updates[u].handler # 0 => ok
            /\ (Processed(u) /\ ~ok) =>
                  /\ updates[u].phase = "dropped"
                  /\ updates[u].replies = 0
                  /\ updates[u].submits = 0
                  /\ updates[u].errors = 0
                  /\ u \notin Range(pool.submitted) \cup pool.rejected

\* A "/start" of a sender the whitelist does not hold was dropped.
C2_Witness ==
    \E u \in UpdateIds :
        /\ updates[u].phase = "dropped"
        /\ updates[u].msg.command = "start"
        /\ ~updates[u].msg.args
        /\ Structural(updates[u].msg)
        /\ updates[u].msg.username = UserB
        /\ ~usernames_whitelist_filter(updates[u].msg)

IsTextUpdate(msg) == msg.text /\ msg.command = ""

SubmittedOnce(u) ==
    /\ updates[u].submits <= 1
    /\ updates[u].replies <= 1
    /\ Terminal(u) =>
          /\ updates[u].submits = 1
          /\ Cardinality({ i \in DOMAIN pool.submitted : pool.submitted[i] = u }) = 1
          /\ (JobResolved(pool, u) /\ pool.results[u] = "ok") =>
                updates[u].replies = 1 /\ updates[u].reply = "translated"

\* C3, as claimed: every text update of a whitelisted sender ends with
\* exactly one submission to the executor and, when its job succeeded,
\* with exactly one reply, which carries the translation.
C3_AsClaimed ==
    \A u \in UpdateIds :
        (IsTextUpdate(updates[u].msg) /\ usernames_whitelist_filter(updates[u].msg))
            => SubmittedOnce(u)

\* C3, amended: every text update of a whitelisted sender that was not
\* sent via another bot ends with exactly one submission to the executor
\* and, when its job succeeded, with exactly one reply, which carries the
\* translation.
C3_OneSubmissionOneReply ==
    \A u \in UpdateIds :
        (/\ IsTextUpdate(updates[u].msg)
         /\ usernames_whitelist_filter(updates[u].msg)
         /\ ~updates[u].msg.via_bot)
            => SubmittedOnce(u)

\* A text update of a whitelisted sender was submitted, its job
\* succeeded, and the translation was sent.
C3_Witness ==
    \E u \in UpdateIds :
        /\ IsTextUpdate(updates[u].msg)
        /\ Whitelist.present
        /\ updates[u].msg.username = UserA
        /\ updates[u].phase = "replied"
        /\ updates[u].reply = "translated"
        /\ pool.results[u] = "ok"

\* C4: the worker starts the jobs, and finishes them, in the order in
\* which they were submitted, whichever handler submitted first.
C4_SubmissionOrder ==
    /\ IsPrefix(pool.started, pool.submitted)
    /\ IsPrefix(pool.finished, pool.submitted)

\* The handler of the second update submitted before the handler of the
\* first one, and both jobs ran, in that order.
C4_Witness ==
    /\ MaxUpdates >= 2
    /\ Len(pool.submitted) >= 2
    /\ pool.submitted[1] = 2
    /\ pool.submitted[2] = 1
    /\ Len(pool.finished) >= 2

\* C5: at most one job is executing at any time.
C5_OneRunning == Cardinality(pool.running) <= 1

\* Two handlers are awaiting their jobs: one job runs, the other waits.
C5_Witness ==
    /\ Cardinality(pool.running) = 1
    /\ pool.queue # << >>
    /\ \A j \in pool.running \cup Range(pool.queue) :
          updates[j].phase = "offloaded"

NextToDispatch(v) ==
    /\ updates[v].phase = "received"
    /\ \A w \in UpdateIds : w < v => updates[w].phase # "received"

NextToReceive(v) ==
    /\ updates[v].phase = "absent"
    /\ \A w \in UpdateIds : w < v => updates[w].phase # "absent"

\* What the event loop does for update v is not held up.
LoopFreeFor(v) ==
    /\ (pc = "polling" /\ NextToReceive(v)) =>
          \A m \in Messages : ENABLED receive(v, m)
    /\ NextToDispatch(v) => ENABLED dispatch(v)
    /\ (updates[v].phase = "routed" /\ HandlerKind(v) = "CommandHandler") =>
          ENABLED handle_command(v, TRUE)
    /\ (updates[v].phase = "routed" /\ HandlerKind(v) = "MessageHandler") =>
          ENABLED handle_translation_submit(v)

\* C6: while the job of one update is queued or running and its handler
\* awaits it, every other update can still be received, dispatched and
\* handled; the submission left the event loop free.
C6_NotSerialized ==
    \A u \in UpdateIds :
        (Polling /\ updates[u].phase = "offloaded" /\ JobPending(pool, u)) =>
            \A v \in UpdateIds \ {u} : LoopFreeFor(v)

\* An update was dispatched and replied to while the job of another
\* update was, and still is, queued or running.
C6_Witness ==
    \E u, v \in UpdateIds :
        /\ updates[u].phase = "offloaded"
        /\ JobPending(pool, u)
        /\ updates[v].phase = "replied"
        /\ updates[v].while_pending

Raised(u) == updates[u].phase # "failed" /\ updates'[u].phase = "failed"

\* C7: a handler that raises ends with exactly one call of the error
\* handler (and no other update with any); the exception is not passed
\* on to run_polling, which stays where it is, and the updates after it
\* are still received, dispatched and handled.
C7_ErrorContained ==
    /\ [](\A u \in UpdateIds :
            /\ updates[u].errors = (IF updates[u].phase = "failed" THEN 1 ELSE 0)
            /\ (updates[u].phase = "failed" /\ Polling) =>
                  \A v \in UpdateIds \ {u} : LoopFreeFor(v))
    /\ [][\A u \in UpdateIds :
            Raised(u) => pc' = pc /\ updates'[u].errors = updates[u].errors + 1]_vars

\* The handler of the first update raised; the second update was
\* dispatched after that and got its reply.
C7_Witness ==
    \E u, v \in UpdateIds :
        /\ updates[u].phase = "failed"
        /\ updates[u].errors = 1
        /\ updates[v].phase = "replied"
        /\ updates[v].after_failure
        /\ pc = "polling"

Outstanding == pool.at_shutdown.queued \cup pool.at_shutdown.running

\* C8: once shutdown() was called no job is accepted any more, and
\* shutdown() returns only when every job that was queued or running at
\* the call has run to completion; none of them is dropped or cancelled.
C8_DrainOnShutdown ==
    pool.shutdown_flag =>
        /\ Len(pool.submitted) = pool.at_shutdown.accepted
        /\ pool.rejected \cap Range(pool.submitted) = {}
        /\ \A j \in Outstanding : JobPending(pool, j) \/ JobResolved(pool, j)
        /\ \A j \in DOMAIN pool.results : pool.results[j] \in JobOutcomes
        /\ pool.stopped =>
              \A j \in Outstanding :
                  /\ JobResolved(pool, j)
                  /\ j \in Range(pool.finished)

\* shutdown() was called with one job running and one queued, a job
\* submitted after that was refused, and shutdown() has returned.
C8_Witness ==
    /\ pool.stopped
    /\ pool.at_shutdown.queued # {}
    /\ pool.at_shutdown.running # {}
    /\ pool.rejected # {}

C10_ShutdownExactlyOnce ==
    (pc = "exited" /\ background_executor) => shutdown_calls = 1

\* C11: a publish call of the post_init callback that fails does not
\* abort startup; the callback goes on with the calls that follow, and
\* registers the error handler and the handlers after them.
C11_PublishBestEffort ==
    [][("PublishError" \notin raised /\ "PublishError" \in raised') =>
           pc' = "post_init"]_vars


Accepted(msg) == Structural(msg) /\ usernames_whitelist_filter(msg)

RecognizedCommand(msg) == msg.command \in Range(command_sequence)

ToCommandHandler(u) ==
    /\ HandlerKind(u) = "CommandHandler"
    /\ handlers[updates[u].handler].command = updates[u].msg.command

ToTranslationHandler(u) == HandlerKind(u) = "MessageHandler"

\* C12, as claimed: an accepted update goes to a command handler exactly
\* when it begins with a recognized command and did not come via another
\* bot, whether or not text follows the command; every other accepted
\* update with text or a caption that is not a command goes to the
\* translation handler.
C12_AsClaimed ==
    \A u \in UpdateIds :
        LET m == updates[u].msg
        IN  (Processed(u) /\ Accepted(m)) =>
                /\ ToCommandHandler(u) <=> (RecognizedCommand(m) /\ ~m.via_bot)
                /\ (~COMMAND(m) /\ (m.text \/ m.caption)) => ToTranslationHandler(u)

\* C12, amended: an accepted update goes to a command handler exactly when
\* it is a recognized command with nothing after it; an accepted update
\* with text or a caption that does not begin with a command goes to the
\* translation handler; every other accepted update is dropped.
C12_RoutingRule ==
    \A u \in UpdateIds :
        LET m == updates[u].msg
        IN  (Processed(u) /\ Accepted(m)) =>
                /\ ToCommandHandler(u) <=> (RecognizedCommand(m) /\ ~m.args)
                /\ ToTranslationHandler(u) <=> (~COMMAND(m) /\ (m.text \/ m.caption))
                /\ (~ToCommandHandler(u) /\ ~ToTranslationHandler(u)) =>
                      /\ updates[u].phase = "dropped"
                      /\ updates[u].handler = 0

\* An accepted "/start" with text after it was dropped.
C12_Witness ==
    \E u \in UpdateIds :
        /\ Accepted(updates[u].msg)
        /\ updates[u].msg.command = "start"
        /\ updates[u].msg.args
        /\ updates[u].phase = "dropped"


C14_WorkerCrash ==
    pool.broken =>
        /\ \A j \in pool.at_crash.running :
              JobResolved(pool, j) /\ pool.results[j] = "broken"
        /\ pool.queue = << >> /\ pool.running = {}
        /\ \A j \in Range(pool.submitted) : JobResolved(pool, j)
        /\ ~ExecutorAccepts(pool)
        /\ \A j \in JobIds :
              (j > pool.at_crash.issued
                  /\ j <= Len(pool.submitted) + Cardinality(pool.rejected))
                  => j \in pool.rejected /\ ~JobPending(pool, j)

\* The worker died with one job running and one queued, and a job
\* submitted after that was refused.
C14_Witness ==
    /\ pool.broken
    /\ pool.at_crash.running # {}
    /\ pool.at_crash.queued # {}
    /\ \E j \in pool.rejected : j > pool.at_crash.issued


\* The steps of the state machine of an update: Received, then dropped
\* (Filtered: reject) or routed (Filtered: accept, Routed), then, for the
\* translation handler, offloaded (or rejected, when the executor refused
\* the job), then replied or failed.
PhaseSteps ==
    { << "absent", "received" >>,
      << "received", "dropped" >>, << "received", "routed" >>,
      << "routed", "offloaded" >>, << "routed", "rejected" >>,
      << "routed", "replied" >>, << "routed", "failed" >>,
      << "offloaded", "replied" >>, << "offloaded", "failed" >>,
      << "rejected", "replied" >>, << "rejected", "failed" >> }

\* C15: an update only moves forward through received, dropped or routed,
\* offloaded, replied or failed, and stays in the outcome it reached; only
\* an update routed to the translation handler is offloaded, a command
\* goes from routed to its outcome; and when the event loop and the worker
\* are scheduled fairly, every routed update ends replied or failed.
C15_UpdateStateMachine ==
    /\ [][\A u \in UpdateIds :
            updates'[u].phase # updates[u].phase =>
                /\ << updates[u].phase, updates'[u].phase >> \in PhaseSteps
                /\ updates[u].phase = "routed" =>
                      (updates'[u].phase \in { "offloaded", "rejected" }
                          <=> HandlerKind(u) = "MessageHandler")]_vars
    /\ [](\A u \in UpdateIds :
            /\ updates[u].submits > 0 => HandlerKind(u) = "MessageHandler"
            /\ updates[u].phase \in { "routed", "offloaded", "rejected",
                                      "replied", "failed" }
                  <=> updates[u].handler # 0)
    /\ \A u \in UpdateIds :
          (updates[u].phase = "routed")
              ~> (updates[u].phase \in { "replied", "failed" })

\* A translation went through offloaded and was replied to, and the
\* handler of a command failed.
C15_Witness ==
    \E u, v \in UpdateIds :
        /\ updates[u].phase = "replied"
        /\ updates[u].submits = 1
        /\ HandlerKind(u) = "MessageHandler"
        /\ updates[v].phase = "failed"
        /\ HandlerKind(v) = "CommandHandler"


\* C16: the registered command handlers have distinct command names, and
\* of all registered handlers at most one accepts a given message, so an
\* update is dispatched to at most one callback: never to two command
\* handlers, never to a command handler and the translation handler.
C16_AtMostOneHandler ==
    handlers # << >> =>
        /\ \A i, k \in DOMAIN handlers :
              (/\ i # k
               /\ handlers[i].kind = "CommandHandler"
               /\ handlers[k].kind = "CommandHandler")
                  => handlers[i].command # handlers[k].command
        /\ \A m \in Messages : Cardinality(Matching(m)) <= 1
        /\ \A u \in UpdateIds :
              updates[u].handler # 0 =>
                  Matching(updates[u].msg) = { updates[u].handler }

\* A "/start" was given to its command handler, the only handler that
\* accepts it.
C16_Witness ==
    \E u \in UpdateIds :
        /\ updates[u].msg.command = "start"
        /\ HandlerKind(u) = "CommandHandler"
        /\ updates[u].phase = "replied"
        /\ Cardinality(Matching(updates[u].msg)) = 1


StartFinished ==
    /\ published = PublishCalls
    /\ error_handlers # {}
    /\ handlers = RegisteredHandlers
    /\ pc \in { "polling", "stopping", "finalize", "shutdown_wait", "exited" }

\* C17: the executor is constructed before the Bot and the application
\* are; the post_init callback registers the error handler in an earlier
\* step than the handlers, and both after its publish calls; no update is
\* received, dispatched or handled before the callback has finished, and
\* so none before the executor exists and the error handler is registered.
C17_StartupOrder ==
    /\ [](/\ (bot \/ application) => (background_executor /\ executors.application # 0)
          /\ error_handlers # {} => published = PublishCalls
          /\ handlers # << >> => error_handlers # {}
          /\ \A u \in UpdateIds :
                updates[u].phase # "absent" =>
                    /\ StartFinished
                    /\ background_executor
                    /\ bot)
    /\ [][/\ (bot' # bot \/ application' # application) => background_executor
          /\ handlers' # handlers => error_handlers # {}
          /\ updates' # updates => StartFinished]_vars

\* A translation was replied to while the application is polling.
C17_Witness ==
    /\ pc = "polling"
    /\ StartFinished
    /\ \E u \in UpdateIds :
          /\ updates[u].phase = "replied"
          /\ updates[u].reply = "translated"


\* C18: no assertion of Application fails: the three configurations are
\* set when __create_appplication starts, the application when run()
\* asserts it, the bot configuration and the bot when the post_init
\* callback starts, and the executor when the post_shutdown callback
\* starts; no AssertionError is ever raised.
C18_AssertionsHold ==
    /\ "AssertionError" \notin raised
    /\ pc = "config_read" =>
          bot_config.set /\ telegram_config /\ gcloud_credentials
    /\ pc = "built" => application /\ bot_config.set /\ bot
    /\ pc \in { "post_init", "registering" } => bot_config.set /\ bot
    /\ pc \in { "finalize", "shutdown_wait" } => background_executor

\* A run has passed all its assertions: it polled, was stopped, shut the
\* executor down and ended, with no exception.
C18_Witness ==
    /\ pc = "exited"
    /\ handlers # << >>
    /\ shutdown_calls = 1
    /\ raised = {}


====
